---- MODULE Spec2Model ----
(***************************************************************************)
(* Verification model of the RGB standard library consignment container,   *)
(* its concealment (finalize) and revelation (reveal_seals) procedures,    *)
(* the endpoint guard, the chain iterator and the terminal seal model.     *)
(*                                                                         *)
(* Hashes (seal concealment, state concealment, node / bundle /            *)
(* consignment ids) are modelled as collision-free tagged commitments to   *)
(* the committed data.                                                     *)
(***************************************************************************)
EXTENDS Integers, Sequences, FiniteSets, TLC

(***************************************************************************)
(* Bounds of the model                                                     *)
(***************************************************************************)
MaxVout == 2
MaxBlinding == 3
MaxVersion == 1
MaxNexts == 5
MaxMutations == 2
\* the largest length a LargeVec holds (u32::MAX in the program), scaled down
\* to the longest anchored bundle list of the model
LargeVecMax == 3

(***************************************************************************)
(* Seal model (std/src/containers/seal.rs)                                 *)
(***************************************************************************)
CloseMethod == {"OpretFirst", "TapretFirst"}

NoTxid == "-"
Txids == {"txA"}

\* bp::seals::txout::TxPtr : WitnessTx | Txid(txid)
TxPtr == {[tag |-> "WitnessTx", txid |-> NoTxid]} \cup
         {[tag |-> "Txid", txid |-> x] : x \in Txids}

TxPtrWitnessTx == [tag |-> "WitnessTx", txid |-> NoTxid]

Vouts == 0..MaxVout
Blindings == 1..MaxBlinding

\* VoutSeal { method, vout, blinding }
VoutSeal == [method : CloseMethod, vout : Vouts, blinding : Blindings]

\* rgb::GraphSeal = BlindSeal<TxPtr> { method, txid, vout, blinding }
GraphSeal == [method : CloseMethod, txid : TxPtr, vout : Vouts, blinding : Blindings]

\* VoutSeal::with(method, vout, blinding)
VoutSealWith(method, vout, blinding) ==
    [method |-> method, vout |-> vout, blinding |-> blinding]

\* GraphSeal::with_vout(method, vout, blinding): a seal relative to the
\* witness transaction
GraphSealWithVout(method, vout, blinding) ==
    [method |-> method, txid |-> TxPtrWitnessTx, vout |-> vout, blinding |-> blinding]

\* impl Conceal for GraphSeal: the SecretSeal is a commitment to all four
\* fields of the seal
ConcealGraphSeal(g) ==
    [secret |-> <<g.method, g.txid.tag, g.txid.txid, g.vout, g.blinding>>]

SecretSeal == {ConcealGraphSeal(g) : g \in GraphSeal}

\* GraphSealFromVoutSeal that does not carry the blinding factor over
GraphSealFromVoutSealUnblinded(seal) ==
    GraphSealWithVout(seal.method, seal.vout, 1)

\* impl From<VoutSeal> for GraphSeal
GraphSealFromVoutSeal(seal) ==
    GraphSealWithVout(seal.method, seal.vout, seal.blinding)

\* Fillers of the unused arm of the TerminalSeal sum type
NoSecret == [secret |-> <<>>]
NoVoutSeal == [method |-> "-", vout |-> 0, blinding |-> 0]

\* enum TerminalSeal { ConcealedUtxo(SecretSeal), WitnessVout(VoutSeal) }
ConcealedUtxo(hash) == [tag |-> "ConcealedUtxo", hash |-> hash, seal |-> NoVoutSeal]
WitnessVout(seal) == [tag |-> "WitnessVout", hash |-> NoSecret, seal |-> seal]

TerminalSeal == {ConcealedUtxo(h) : h \in SecretSeal} \cup
                {WitnessVout(v) : v \in VoutSeal}

\* TerminalSealFromGraphSeal with the txid of the seal ignored: every seal is
\* taken as relative to the witness transaction
TerminalSealFromGraphSealNoTxid(seal) ==
    WitnessVout(VoutSealWith(seal.method, seal.vout, seal.blinding))

\* impl From<GraphSeal> for TerminalSeal
TerminalSealFromGraphSeal(seal) ==
    IF seal.txid.tag = "WitnessTx"
    THEN WitnessVout(VoutSealWith(seal.method, seal.vout, seal.blinding))
    ELSE ConcealedUtxo(ConcealGraphSeal(seal))

\* impl Conceal for TerminalSeal
ConcealTerminalSeal(self) ==
    IF self.tag = "ConcealedUtxo"
    THEN self.hash
    ELSE ConcealGraphSeal(GraphSealFromVoutSeal(self.seal))

(***************************************************************************)
(* Generic sequence helpers                                                *)
(***************************************************************************)
RECURSIVE SumSeq(_)
SumSeq(s) == IF s = <<>> THEN 0 ELSE Head(s) + SumSeq(Tail(s))

SeqRange(s) == {s[i] : i \in 1..Len(s)}

RECURSIVE Flatten(_)
Flatten(ss) == IF ss = <<>> THEN <<>> ELSE Head(ss) \o Flatten(Tail(ss))

\* the sequence of F(s[i]), built as an explicit tuple
SeqMap(F(_), s) == [i \in 1..Len(s) |-> F(s[i])] \o <<>>

\* a sequence of [val, n] results: the values, and the sum of the counts
Vals(rs) == SeqMap(LAMBDA r : r.val, rs)
Counts(rs) == SumSeq(SeqMap(LAMBDA r : r.n, rs))

\* the [val, n] result of a pass over a sequence, from the results per item
Collected(rs) == [val |-> Vals(rs), n |-> Counts(rs)]

(***************************************************************************)
(* Owned right assignments: the four disclosure forms of a (seal, state)   *)
(* pair                                                                    *)
(***************************************************************************)
NoSeal == [method |-> "-", txid |-> [tag |-> "-", txid |-> NoTxid], vout |-> 0, blinding |-> 0]
NoState == [value |-> 0]
NoCommit == [commit |-> 0]

\* commitment to a revealed state value
ConcealStateValue(v) == [commit |-> v.value]

AssignRevealed(seal, state) ==
    [tag |-> "Revealed", seal |-> seal, cseal |-> NoSecret, state |-> state, cstate |-> NoCommit]
AssignConfidentialState(seal, cstate) ==
    [tag |-> "ConfidentialState", seal |-> seal, cseal |-> NoSecret, state |-> NoState, cstate |-> cstate]
AssignConfidentialSeal(cseal, state) ==
    [tag |-> "ConfidentialSeal", seal |-> NoSeal, cseal |-> cseal, state |-> state, cstate |-> NoCommit]
AssignConfidential(cseal, cstate) ==
    [tag |-> "Confidential", seal |-> NoSeal, cseal |-> cseal, state |-> NoState, cstate |-> cstate]

SealIsRevealed(a) == a.tag \in {"Revealed", "ConfidentialState"}
StateIsRevealed(a) == a.tag \in {"Revealed", "ConfidentialSeal"}

\* the concealed seal an assignment commits to, whatever its form
ConcealedSealOf(a) == IF SealIsRevealed(a) THEN ConcealGraphSeal(a.seal) ELSE a.cseal
\* the concealed state an assignment commits to, whatever its form
ConcealedStateOf(a) == IF StateIsRevealed(a) THEN ConcealStateValue(a.state) ELSE a.cstate

\* the fully concealed form of an assignment: what node ids commit to
CommitConcealAssignment(a) == AssignConfidential(ConcealedSealOf(a), ConcealedStateOf(a))

\* ConcealState::conceal_state_except for one assignment; seals is the list
\* of concealed seals whose state stays exposed
AssignmentConcealStateExcept(a, seals) ==
    IF a.tag = "ConfidentialSeal" /\ a.cseal \notin seals
    THEN [val |-> AssignConfidential(a.cseal, ConcealStateValue(a.state)), n |-> 1]
    ELSE IF a.tag = "Revealed" /\ ConcealGraphSeal(a.seal) \notin seals
    THEN [val |-> AssignConfidentialState(a.seal, ConcealStateValue(a.state)), n |-> 1]
    ELSE [val |-> a, n |-> 0]

\* ConcealSeals::conceal_seals for one assignment; seals is the list of
\* concealed seals to blind
AssignmentConcealSeals(a, seals) ==
    IF a.tag = "ConfidentialState" /\ ConcealGraphSeal(a.seal) \in seals
    THEN [val |-> AssignConfidential(ConcealGraphSeal(a.seal), a.cstate), n |-> 1]
    ELSE IF a.tag = "Revealed" /\ ConcealGraphSeal(a.seal) \in seals
    THEN [val |-> AssignConfidentialSeal(ConcealGraphSeal(a.seal), a.state), n |-> 1]
    ELSE [val |-> a, n |-> 0]

\* the known seals whose concealment is the given concealed seal
MatchingSeals(cseal, known_seals) == {k \in known_seals : ConcealGraphSeal(k) = cseal}

\* AssignmentRevealSeals without the comparison of concealments: a concealed
\* seal is replaced by whichever known seal comes first
AssignmentRevealSealsAny(a, known_seals) ==
    IF SealIsRevealed(a) \/ known_seals = {}
    THEN [val |-> a, n |-> 0]
    ELSE LET reveal == CHOOSE k \in known_seals : TRUE
         IN  IF a.tag = "Confidential"
             THEN [val |-> AssignConfidentialState(reveal, a.cstate), n |-> 1]
             ELSE [val |-> AssignRevealed(reveal, a.state), n |-> 1]

\* RevealSeals::reveal_seals for one assignment
AssignmentRevealSeals(a, known_seals) ==
    IF SealIsRevealed(a) \/ MatchingSeals(a.cseal, known_seals) = {}
    THEN [val |-> a, n |-> 0]
    ELSE LET reveal == CHOOSE k \in MatchingSeals(a.cseal, known_seals) : TRUE
         IN  IF a.tag = "Confidential"
             THEN [val |-> AssignConfidentialState(reveal, a.cstate), n |-> 1]
             ELSE [val |-> AssignRevealed(reveal, a.state), n |-> 1]

(***************************************************************************)
(* Owned rights of a node: a map from owned right type to a vector of      *)
(* assignments, kept as a sequence of [type, items] in type order          *)
(***************************************************************************)
\* the result for the assignments of one type
WithType(type, r) == [val |-> [type |-> type, items |-> r.val], n |-> r.n]

\* applies a per-assignment operation Op(a, arg) to every assignment of
\* every type: val is the new owned rights, n the sum of the returned counts
OwnedRightsApply(Op(_, _), rights, arg) ==
    Collected(SeqMap(LAMBDA typed :
                        WithType(typed.type,
                                 Collected(SeqMap(LAMBDA a : Op(a, arg), typed.items))),
                     rights))

\* all assignments of a node in iteration order
AllAssignments(rights) == Flatten(SeqMap(LAMBDA typed : typed.items, rights))

(***************************************************************************)
(* Nodes: genesis, state transitions and state extensions                  *)
(*                                                                         *)
(* A node is [kind, node_type, metadata, parent_owned_rights,              *)
(* owned_rights].  parent_owned_rights is the sequence of the node's       *)
(* parent outputs, [node_id, type, output_no], in map order.                *)
(***************************************************************************)
\* the node with every assignment in its fully concealed form
ConcealedRights(rights) ==
    SeqMap(LAMBDA typed :
              [type |-> typed.type,
               items |-> SeqMap(CommitConcealAssignment, typed.items)],
           rights)

\* Node::node_id: the commitment to the node's content, taken over the
\* concealed form of its owned rights
NodeId(node) ==
    [node |-> <<node.kind, node.node_type, node.metadata,
                node.parent_owned_rights, ConcealedRights(node.owned_rights)>>]

\* the (arbitrary but fixed) total order of node ids, by which ordered maps
\* and sets of nodes are kept
NodeRank(id) == id.node[3]

\* Node::parent_outputs_by_type
ParentOutputsByType(node, t) ==
    SelectSeq(node.parent_owned_rights, LAMBDA p : p.type = t)

\* the node with its owned rights replaced by the result r of a pass
WithOwnedRights(node, r) == [val |-> [node EXCEPT !.owned_rights = r.val], n |-> r.n]

\* ConcealState for a node
NodeConcealStateExcept(node, seals) ==
    WithOwnedRights(node, OwnedRightsApply(AssignmentConcealStateExcept, node.owned_rights, seals))

\* ConcealSeals for a node
NodeConcealSeals(node, seals) ==
    WithOwnedRights(node, OwnedRightsApply(AssignmentConcealSeals, node.owned_rights, seals))

\* RevealSeals over the owned rights of a node
NodeRevealSeals(node, known_seals) ==
    WithOwnedRights(node, OwnedRightsApply(AssignmentRevealSeals, node.owned_rights, known_seals))

(***************************************************************************)
(* Transition bundles: an ordered map from transition to its input set,    *)
(* kept as a sequence of [transition, inputs] in key order                 *)
(***************************************************************************)
\* BTreeMap::insert of one (transition, inputs) entry: an entry with an equal
\* key has its value replaced, otherwise the entry goes to its place in key
\* order
RECURSIVE BTreeMapInsert(_, _)
BTreeMapInsert(map, entry) ==
    IF map = <<>> THEN <<entry>>
    ELSE IF NodeId(Head(map).transition) = NodeId(entry.transition)
         THEN <<[transition |-> Head(map).transition, inputs |-> entry.inputs]>> \o Tail(map)
    ELSE IF NodeRank(NodeId(entry.transition)) < NodeRank(NodeId(Head(map).transition))
         THEN <<entry>> \o map
    ELSE <<Head(map)>> \o BTreeMapInsert(Tail(map), entry)

\* Iterator::collect::<BTreeMap<_, _>>() followed by TransitionBundle::from
RECURSIVE BTreeMapCollect(_)
BTreeMapCollect(entries) ==
    IF entries = <<>> THEN <<>>
    ELSE BTreeMapInsert(BTreeMapCollect(SubSeq(entries, 1, Len(entries) - 1)),
                        entries[Len(entries)])

\* TransitionBundle::known_node_ids
KnownNodeIds(bundle) == {NodeId(bundle[i].transition) : i \in 1..Len(bundle)}

\* TransitionBundle::bundle_id: the commitment to the map from node id to
\* input set
BundleId(bundle) ==
    [bundle |-> SeqMap(LAMBDA e : [node_id |-> NodeId(e.transition), inputs |-> e.inputs],
                       bundle)]

(***************************************************************************)
(* Consignment container (src/consignment.rs)                              *)
(*                                                                         *)
(* FullConsignment is [version, schema, genesis, endpoints,                *)
(* anchored_bundles, state_extensions]; endpoints is a sequence of         *)
(* [bundle_id, seal_endpoint], anchored_bundles a sequence of              *)
(* [anchor, bundle].                                                       *)
(***************************************************************************)
RGB_CONSIGNMENT_VERSION == 0


NoNode == [kind |-> "-", node_type |-> 0, metadata |-> 0,
           parent_owned_rights |-> <<>>, owned_rights |-> <<>>]
NoError == [kind |-> "-", id |-> [node |-> <<>>]]

\* ConsistencyError values
NotEndpoint(node_id) == [kind |-> "NotEndpoint", id |-> node_id]
TransitionAbsent(node_id) == [kind |-> "TransitionAbsent", id |-> node_id]
BundleIdAbsent(bundle_id) == [kind |-> "BundleIdAbsent", id |-> bundle_id]

Ok(val) == [ok |-> TRUE, val |-> val, err |-> NoError]
Err(val, err) == [ok |-> FALSE, val |-> val, err |-> err]

\* all (transition, witness txid) pairs of the consignment, in the order
\* the anchored bundles and their transitions are scanned
TransitionWitnesses(c) ==
    Flatten(SeqMap(LAMBDA ab :
                      SeqMap(LAMBDA e : [transition |-> e.transition, txid |-> ab.anchor.txid],
                             ab.bundle),
                   c.anchored_bundles))

NoWitness == [transition |-> NoNode, txid |-> NoTxid]

\* GraphApi::transition_witness_by_id
transition_witness_by_id(c, node_id) ==
    LET found == SelectSeq(TransitionWitnesses(c),
                           LAMBDA tw : NodeId(tw.transition) = node_id)
    IN  IF found = <<>> THEN Err(NoWitness, TransitionAbsent(node_id))
        ELSE Ok(Head(found))

\* GraphApi::transition_by_id
transition_by_id(c, node_id) ==
    LET r == transition_witness_by_id(c, node_id)
    IN  IF r.ok THEN Ok(r.val.transition) ELSE Err(NoNode, r.err)

\* GraphApi::bundle_by_id
bundle_by_id(c, bundle_id) ==
    LET found == SelectSeq(c.anchored_bundles,
                           LAMBDA ab : BundleId(ab.bundle) = bundle_id)
    IN  IF found = <<>> THEN Err(<<>>, BundleIdAbsent(bundle_id))
        ELSE Ok(Head(found).bundle)

\* FullConsignment::with
with(schema, genesis, endpoints, anchored_bundles, state_extensions) ==
    [version |-> RGB_CONSIGNMENT_VERSION,
     schema |-> schema,
     genesis |-> genesis,
     endpoints |-> endpoints,
     anchored_bundles |-> anchored_bundles,
     state_extensions |-> state_extensions]

\* FullConsignment::version
version(c) == c.version

\* strict encoding of the container: its fields in declaration order, the
\* version byte first
StrictEncode(c) ==
    <<c.version, c.schema, c.genesis, c.endpoints, c.anchored_bundles, c.state_extensions>>

\* strict_decode_self!: reads the fields back in declaration order
StrictDecodeSelf(d) ==
    [version |-> d[1], schema |-> d[2], genesis |-> d[3], endpoints |-> d[4],
     anchored_bundles |-> d[5], state_extensions |-> d[6]]

UnsupportedDataStructure == [kind |-> "UnsupportedDataStructure", id |-> [node |-> <<>>]]

\* impl StrictDecode for FullConsignment
strict_decode(d) ==
    LET consignment == StrictDecodeSelf(d)
    IN  IF consignment.version # 0
        THEN [ok |-> FALSE, err |-> UnsupportedDataStructure]
        ELSE [ok |-> TRUE, val |-> consignment, err |-> NoError]

\* derived serde Deserialize (features cli and serde): every field is taken
\* from the document as it is
serde_deserialize(doc) ==
    [version |-> doc.version, schema |-> doc.schema, genesis |-> doc.genesis,
     endpoints |-> doc.endpoints, anchored_bundles |-> doc.anchored_bundles,
     state_extensions |-> doc.state_extensions]

\* id with the endpoints left out of the committed data
id_skipping_endpoints(c) ==
    [consignment_id |-> <<c.version, c.schema, c.genesis, c.anchored_bundles, c.state_extensions>>]

\* FullConsignment::id: ConsensusCommit with the strict encoding strategy,
\* the tagged hash of the strict encoding of a clone of the consignment
id(c) == [consignment_id |-> StrictEncode(c)]

\* node_ids taken over the bundles the endpoints name only
node_ids_of_endpoint_bundles(c) ==
    {NodeId(c.genesis)} \cup
    UNION {KnownNodeIds(c.anchored_bundles[i].bundle) :
             i \in {k \in 1..Len(c.anchored_bundles) :
                       \E e \in 1..Len(c.endpoints) :
                           c.endpoints[e].bundle_id = BundleId(c.anchored_bundles[k].bundle)}} \cup
    {NodeId(c.state_extensions[i]) : i \in 1..Len(c.state_extensions)}

\* FullConsignment::node_ids
node_ids(c) ==
    {NodeId(c.genesis)} \cup
    UNION {KnownNodeIds(c.anchored_bundles[i].bundle) : i \in 1..Len(c.anchored_bundles)} \cup
    {NodeId(c.state_extensions[i]) : i \in 1..Len(c.state_extensions)}

\* the (arbitrary but fixed) total order of bundle ids, by which ordered
\* sets of bundle ids are kept
BundleIdRank(bundle_id) ==
    IF bundle_id.bundle = <<>> THEN 0 ELSE NodeRank(bundle_id.bundle[1].node_id)

\* a set of bundle ids as the sequence an ordered set is iterated in
RECURSIVE BTreeSetIter(_)
BTreeSetIter(ids) ==
    IF ids = {} THEN <<>>
    ELSE LET least == CHOOSE x \in ids : \A y \in ids : BundleIdRank(x) <= BundleIdRank(y)
         IN  <<least>> \o BTreeSetIter(ids \ {least})

\* FullConsignment::endpoint_bundle_ids
endpoint_bundle_ids(c) == {c.endpoints[i].bundle_id : i \in 1..Len(c.endpoints)}

\* FullConsignment::endpoint_bundles: the bundles the endpoint bundle ids
\* resolve to; an id that does not resolve is passed over
endpoint_bundles(c) ==
    SeqMap(LAMBDA bundle_id : bundle_by_id(c, bundle_id).val,
           SelectSeq(BTreeSetIter(endpoint_bundle_ids(c)),
                     LAMBDA bundle_id : bundle_by_id(c, bundle_id).ok))

\* FullConsignment::endpoint_transition_by_id
endpoint_transition_by_id(c, node_id) ==
    IF \E i \in 1..Len(c.endpoints) :
           /\ bundle_by_id(c, c.endpoints[i].bundle_id).ok
           /\ node_id \in KnownNodeIds(bundle_by_id(c, c.endpoints[i].bundle_id).val)
    THEN Err(NoNode, NotEndpoint(node_id))
    ELSE transition_by_id(c, node_id)

(***************************************************************************)
(* Concealment engine: FullConsignment::finalize                           *)
(***************************************************************************)
\* the concealed seals of a collection of seal endpoints
CommitConcealAll(seal_endpoints) == {ConcealTerminalSeal(e) : e \in seal_endpoints}

\* the endpoints finalize keeps: those whose seal endpoint is exposed
FinalizeKeptEndpoints(endpoints, expose) ==
    SelectSeq(endpoints, LAMBDA ep : ep.seal_endpoint \in expose)

\* FinalizeRemovedEndpoints recording the seal endpoint of every entry, kept
\* or removed
FinalizeRemovedEndpointsAll(endpoints, expose) ==
    SeqMap(LAMBDA ep : ep.seal_endpoint, endpoints)

\* the seal endpoints of the entries finalize removes, in their order
FinalizeRemovedEndpoints(endpoints, expose) ==
    LET removed == SelectSeq(endpoints, LAMBDA ep : ep.seal_endpoint \notin expose)
    IN  SeqMap(LAMBDA ep : ep.seal_endpoint, removed)

\* the result r of a pass, counted on top of n
AddCount(n, r) == [val |-> r.val, n |-> n + r.n]

\* the seal pass on the result s1 of the state pass: the counts add up
ThenConcealSeals(s1, seals) == AddCount(s1.n, NodeConcealSeals(s1.val, seals))

\* FinalizeTransition with the two lists of concealed seals swapped
FinalizeTransitionSwapped(transition, concealed_endpoints, seals_to_conceal) ==
    ThenConcealSeals(NodeConcealStateExcept(transition, seals_to_conceal),
                     concealed_endpoints)

\* the closure applied to one transition of a bundle: state concealment
\* first, then seal concealment of the result
FinalizeTransition(transition, concealed_endpoints, seals_to_conceal) ==
    ThenConcealSeals(NodeConcealStateExcept(transition, concealed_endpoints),
                     seals_to_conceal)

\* WithInputs pairing the transition with an empty input set
WithInputsEmptied(t, inputs) == [val |-> [transition |-> t.val, inputs |-> {}], n |-> t.n]

\* the (transition, inputs) entry made of the result t for a transition
WithInputs(t, inputs) == [val |-> [transition |-> t.val, inputs |-> inputs], n |-> t.n]

\* the mapped entries collected into a new bundle
CollectedBundle(rs) == [val |-> BTreeMapCollect(Vals(rs)), n |-> Counts(rs)]

\* CollectedBundle keeping only the entries in which something was concealed
CollectedBundleDropUntouched(rs) ==
    [val |-> BTreeMapCollect(Vals(SelectSeq(rs, LAMBDA r : r.n > 0))), n |-> Counts(rs)]

\* FinalizeBundle keeping only the entries in which something was concealed
FinalizeBundleDropUntouched(bundle, concealed_endpoints, seals_to_conceal) ==
    CollectedBundleDropUntouched(
        SeqMap(LAMBDA e : WithInputs(FinalizeTransition(e.transition,
                                         concealed_endpoints, seals_to_conceal),
                                     e.inputs),
               bundle))

\* the closure applied to one bundle: every (transition, inputs) entry is
\* mapped and the entries are collected into a new bundle
FinalizeBundle(bundle, concealed_endpoints, seals_to_conceal) ==
    CollectedBundle(
        SeqMap(LAMBDA e : WithInputs(FinalizeTransition(e.transition,
                                         concealed_endpoints, seals_to_conceal),
                                     e.inputs),
               bundle))

\* the (anchor, bundle) pair made of the result b for a bundle
WithAnchor(anchor, b) == [val |-> [anchor |-> anchor, bundle |-> b.val], n |-> b.n]

\* a pass over a vector that puts every result at the front of the new
\* vector instead of its end
CollectedPrepend(rs) ==
    [val |-> [i \in 1..Len(rs) |-> rs[Len(rs) + 1 - i].val] \o <<>>, n |-> Counts(rs)]

\* FinalizeAnchoredBundles with every mapped pair put at the front of the
\* new vector instead of its end
FinalizeAnchoredBundlesPrepend(anchored_bundles, concealed_endpoints, seals_to_conceal) ==
    CollectedPrepend(
        SeqMap(LAMBDA ab : WithAnchor(ab.anchor,
                                      FinalizeBundle(ab.bundle,
                                          concealed_endpoints, seals_to_conceal)),
               anchored_bundles))

\* the new anchored bundles: every (anchor, bundle) pair is mapped in place
FinalizeAnchoredBundles(anchored_bundles, concealed_endpoints, seals_to_conceal) ==
    Collected(
        SeqMap(LAMBDA ab : WithAnchor(ab.anchor,
                                      FinalizeBundle(ab.bundle,
                                          concealed_endpoints, seals_to_conceal)),
               anchored_bundles))

\* the fold over the state extensions
FinalizeExtensions(state_extensions, concealed_endpoints) ==
    Collected(SeqMap(LAMBDA extension :
                        NodeConcealStateExcept(extension, concealed_endpoints),
                     state_extensions))

\* FinalizeResult whose fold over the extensions starts from zero, losing
\* the count of the pass over the anchored bundles
FinalizeResultFoldFromZero(c, expose, bundles, extensions) ==
    [val |-> [c EXCEPT !.endpoints = FinalizeKeptEndpoints(c.endpoints, expose),
                       !.anchored_bundles = bundles.val,
                       !.state_extensions = extensions.val],
     count |-> extensions.n,
     fault |-> Len(bundles.val) > LargeVecMax]

\* the consignment and the count finalize ends with, from the results of
\* the pass over the anchored bundles and of the fold over the extensions;
\* fault tells whether the conversion of the new vector back into a LargeVec
\* ("size of the original collection not changed") failed
FinalizeResult(c, expose, bundles, extensions) ==
    [val |-> [c EXCEPT !.endpoints = FinalizeKeptEndpoints(c.endpoints, expose),
                       !.anchored_bundles = bundles.val,
                       !.state_extensions = extensions.val],
     count |-> bundles.n + extensions.n,
     fault |-> Len(bundles.val) > LargeVecMax]

\* FinalizeRemovedEndpoints followed by the concealment of the removed seal
\* endpoints
SealsToConceal(endpoints, expose) ==
    CommitConcealAll(SeqRange(FinalizeRemovedEndpoints(endpoints, expose)))

\* FullConsignment::finalize: val is the consignment after the call, count
\* the returned number
finalize(c, expose) ==
    FinalizeResult(c, expose,
                   FinalizeAnchoredBundles(c.anchored_bundles,
                                           CommitConcealAll(expose),
                                           SealsToConceal(c.endpoints, expose)),
                   FinalizeExtensions(c.state_extensions, CommitConcealAll(expose)))

(***************************************************************************)
(* Revelation engine: FullConsignment::reveal_seals                        *)
(***************************************************************************)
\* the loop body for one bundle
RevealBundle(bundle, known_seals) ==
    CollectedBundle(
        SeqMap(LAMBDA e : WithInputs(NodeRevealSeals(e.transition, known_seals), e.inputs),
               bundle))

\* the loop over the anchored bundles
RevealAnchoredBundles(anchored_bundles, known_seals) ==
    Collected(
        SeqMap(LAMBDA ab : WithAnchor(ab.anchor, RevealBundle(ab.bundle, known_seals)),
               anchored_bundles))

\* RevealExtensions with the loop left out
RevealExtensionsSkipped(state_extensions, known_seals) ==
    [val |-> state_extensions, n |-> 0]

\* the loop over the state extensions
RevealExtensions(state_extensions, known_seals) ==
    Collected(SeqMap(LAMBDA extension : NodeRevealSeals(extension, known_seals),
                     state_extensions))

\* the consignment and the counter reveal_seals ends with, from the results
\* of its two loops
RevealResult(c, bundles, extensions) ==
    [val |-> [c EXCEPT !.anchored_bundles = bundles.val,
                       !.state_extensions = extensions.val],
     count |-> bundles.n + extensions.n]

\* FullConsignment::reveal_seals
reveal_seals(c, known_seals) ==
    RevealResult(c,
                 RevealAnchoredBundles(c.anchored_bundles, known_seals),
                 RevealExtensions(c.state_extensions, known_seals))

(***************************************************************************)
(* Chain iterator (src/iter.rs)                                            *)
(*                                                                         *)
(* ChainIter is [connected_by, next_item, error]; an Option is             *)
(* [some, val].                                                            *)
(***************************************************************************)
Some(val) == [some |-> TRUE, val |-> val]
NoneItem == [some |-> FALSE, val |-> NoWitness]
NoneError == [some |-> FALSE, val |-> NoError]

\* Consignment::chain_iter
chain_iter(c, start_with, connected_by) ==
    [connected_by |-> connected_by,
     next_item |-> IF endpoint_transition_by_id(c, start_with).ok
                      /\ transition_witness_by_id(c, start_with).ok
                   THEN Some(transition_witness_by_id(c, start_with).val)
                   ELSE NoneItem,
     error |-> NoneError]

\* ChainIter::is_err
is_err(it) == it.error.some

\* an into_result that forgets the stored error
into_result_forgetting(it) == Ok(<<>>)

\* ChainIter::into_result
into_result(it) == IF it.error.some THEN Err(<<>>, it.error.val) ELSE Ok(<<>>)

\* a next() that keeps its current item when the parent does not resolve
ChainIterNextKeepsItem(c, it) ==
    IF ~it.next_item.some
    THEN [it |-> it, item |-> NoneItem]
    ELSE LET item == it.next_item.val
             outputs == ParentOutputsByType(item.transition, it.connected_by)
         IN  IF outputs = <<>>
             THEN [it |-> [it EXCEPT !.next_item = NoneItem], item |-> NoneItem]
             ELSE LET r == transition_witness_by_id(c, Head(outputs).node_id)
                  IN  [it |-> [it EXCEPT
                                 !.next_item = IF r.ok THEN Some(r.val) ELSE it.next_item,
                                 !.error = IF r.ok THEN it.error ELSE Some(r.err)],
                       item |-> Some(item)]

\* Iterator::next for ChainIter: it is the iterator after the call, item the
\* returned Option
ChainIterNext(c, it) ==
    IF ~it.next_item.some
    THEN [it |-> it, item |-> NoneItem]
    ELSE LET item == it.next_item.val
             outputs == ParentOutputsByType(item.transition, it.connected_by)
         IN  IF outputs = <<>>
             THEN [it |-> [it EXCEPT !.next_item = NoneItem], item |-> NoneItem]
             ELSE LET r == transition_witness_by_id(c, Head(outputs).node_id)
                  IN  [it |-> [it EXCEPT
                                 !.next_item = IF r.ok THEN Some(r.val) ELSE NoneItem,
                                 !.error = IF r.ok THEN it.error ELSE Some(r.err)],
                       item |-> Some(item)]

(***************************************************************************)
(* The consignments of the model: a chain genesis <- T3 <- T2 <- T1 over   *)
(* owned right type 1, a second transition T1b in the bundle of T1 whose   *)
(* parent is not part of the consignment, and one state extension.         *)
(***************************************************************************)
\* the owned right types: 1 connects the chain, 2 connects nothing
RightTypes == {1, 2}

\* seals used by the nodes
sealW == GraphSealWithVout("TapretFirst", 0, 1)
sealU == [method |-> "OpretFirst", txid |-> [tag |-> "Txid", txid |-> "txA"],
          vout |-> 1, blinding |-> 2]
sealV == GraphSealWithVout("OpretFirst", 1, 2)

Forms == {"Revealed", "ConfidentialState", "ConfidentialSeal", "Confidential"}

\* the assignment of state to seal in the given disclosure form
AssignmentInForm(form, seal, state) ==
    LET s == [value |-> state]
    IN  CASE form = "Revealed" -> AssignRevealed(seal, s)
          [] form = "ConfidentialState" -> AssignConfidentialState(seal, ConcealStateValue(s))
          [] form = "ConfidentialSeal" -> AssignConfidentialSeal(ConcealGraphSeal(seal), s)
          [] OTHER -> AssignConfidential(ConcealGraphSeal(seal), ConcealStateValue(s))

Parent(node, type) == [node_id |-> NodeId(node), type |-> type, output_no |-> 0]

GenesisNode ==
    [kind |-> "genesis", node_type |-> 0, metadata |-> 0,
     parent_owned_rights |-> <<>>,
     owned_rights |-> <<[type |-> 1, items |-> <<AssignRevealed(sealU, [value |-> 10])>>]>>]

T3(f) ==
    [kind |-> "transition", node_type |-> 1, metadata |-> 3,
     parent_owned_rights |-> <<Parent(GenesisNode, 1)>>,
     owned_rights |-> <<[type |-> 1, items |-> <<AssignmentInForm(f, sealW, 3)>>]>>]

T2(f) ==
    [kind |-> "transition", node_type |-> 1, metadata |-> 2,
     parent_owned_rights |-> <<Parent(T3("Revealed"), 1)>>,
     owned_rights |-> <<[type |-> 1, items |-> <<AssignmentInForm(f, sealU, 2)>>]>>]

T1(f1, f2) ==
    [kind |-> "transition", node_type |-> 1, metadata |-> 1,
     parent_owned_rights |-> <<Parent(T2("Revealed"), 1)>>,
     owned_rights |-> <<[type |-> 1, items |-> <<AssignmentInForm(f1, sealW, 1),
                                                      AssignmentInForm(f2, sealU, 5)>>],
                        [type |-> 2, items |-> <<AssignmentInForm("Revealed", sealV, 6)>>]>>]

\* a transition that spends the output of type 2 of T1: over owned right
\* type 2 the chain is T0 <- T1, and T1 has no parent of that type
T0 ==
    [kind |-> "transition", node_type |-> 1, metadata |-> 6,
     parent_owned_rights |-> <<Parent(T1("Revealed", "Revealed"), 2)>>,
     owned_rights |-> <<[type |-> 2, items |-> <<AssignmentInForm("Revealed", sealV, 4)>>]>>]

\* a transition that is in no consignment of the model
AbsentNode ==
    [kind |-> "transition", node_type |-> 2, metadata |-> 9,
     parent_owned_rights |-> <<>>, owned_rights |-> <<>>]

T1b ==
    [kind |-> "transition", node_type |-> 2, metadata |-> 4,
     parent_owned_rights |-> <<Parent(AbsentNode, 1)>>,
     owned_rights |-> <<[type |-> 2, items |-> <<AssignmentInForm("Confidential", sealW, 8)>>]>>]

ExtensionNode(f) ==
    [kind |-> "extension", node_type |-> 3, metadata |-> 5,
     parent_owned_rights |-> <<>>,
     owned_rights |-> <<[type |-> 1, items |-> <<AssignmentInForm(f, sealW, 7)>>]>>]

Anchor(txid) == [txid |-> txid, proof |-> <<"proof", txid>>]

Bundle1(f1, f2) == <<[transition |-> T1(f1, f2), inputs |-> {0}],
                     [transition |-> T1b, inputs |-> {1, 2}]>>
Bundle2(f) == <<[transition |-> T2(f), inputs |-> {0}]>>
Bundle3(f) == <<[transition |-> T3(f), inputs |-> {0}]>>
Bundle0 == <<[transition |-> T0, inputs |-> {0}]>>

\* a bundle id no bundle of the model has
AbsentBundleId == BundleId(<<[transition |-> AbsentNode, inputs |-> {0}]>>)

\* the seal endpoints of the model
endW == WitnessVout(VoutSealWith("TapretFirst", 0, 1))
endU == ConcealedUtxo(ConcealGraphSeal(sealU))
endWc == ConcealedUtxo(ConcealGraphSeal(sealW))
SealEndpoints == {endW, endU, endWc}

Endpoint(bundle, seal_endpoint) ==
    [bundle_id |-> BundleId(bundle), seal_endpoint |-> seal_endpoint]

B1 == Bundle1("Revealed", "Revealed")
B2 == Bundle2("Revealed")

\* the endpoint lists of the model
EndpointLists ==
    { <<>>,
      <<Endpoint(B1, endW)>>,
      <<Endpoint(B1, endU), Endpoint(B1, endW)>>,
      <<Endpoint(B1, endWc), [bundle_id |-> AbsentBundleId, seal_endpoint |-> endU]>>,
      <<Endpoint(B2, endU), Endpoint(B1, endW)>> }

\* the disclosure profiles of the model: the forms of the assignments of
\* T1 (two), T2, T3 and the extension
Profiles ==
    { <<"Revealed", "Revealed", "Revealed", "Revealed", "Revealed">>,
      <<"ConfidentialSeal", "ConfidentialState", "Confidential", "Revealed", "ConfidentialSeal">>,
      <<"Confidential", "Revealed", "ConfidentialSeal", "ConfidentialState", "Revealed">>,
      <<"Confidential", "Confidential", "Confidential", "Confidential", "Confidential">> }

\* the anchored bundles of the model under a disclosure profile
AnchoredBundles(p) ==
    <<[anchor |-> Anchor("w1"), bundle |-> Bundle1(p[1], p[2])],
      [anchor |-> Anchor("w2"), bundle |-> Bundle2(p[3])],
      [anchor |-> Anchor("w3"), bundle |-> Bundle3(p[4])]>>

SchemaValue == "schema"

\* the two-node chain genesis <- T3, whose endpoint is the seal of T3's
\* only output
TwoNodeChain ==
    with(SchemaValue, GenesisNode, <<Endpoint(Bundle3("Revealed"), endW)>>,
         <<[anchor |-> Anchor("w3"), bundle |-> Bundle3("Revealed")]>>, <<>>)

\* the chain T0 <- T1 over owned right type 2 and T1 <- T2 over type 1,
\* whose endpoint is the seal of T0's output; the parent T3 of T2 is not
\* part of it
ChainFromEndpoint ==
    with(SchemaValue, GenesisNode,
         <<Endpoint(Bundle0, ConcealedUtxo(ConcealGraphSeal(sealV)))>>,
         <<[anchor |-> Anchor("w0"), bundle |-> Bundle0],
           [anchor |-> Anchor("w1"), bundle |-> B1],
           [anchor |-> Anchor("w2"), bundle |-> B2]>>,
         <<>>)

\* the consignments a run starts from
Consignments ==
    { with(SchemaValue, GenesisNode, eps, AnchoredBundles(p), <<ExtensionNode(p[5])>>) :
        eps \in EndpointLists, p \in Profiles }
    \cup {TwoNodeChain, ChainFromEndpoint}

\* the consignments that arrive encoded, before their version is set
EncodedBodies ==
    { with(SchemaValue, GenesisNode, <<Endpoint(B1, endW)>>, abs, <<>>) :
        abs \in { <<[anchor |-> Anchor("w1"), bundle |-> Bundle1("Revealed", "ConfidentialSeal")]>>,
                  <<[anchor |-> Anchor("w2"), bundle |-> Bundle2("Confidential")],
                    [anchor |-> Anchor("w1"), bundle |-> Bundle1("Confidential", "Revealed")]>> } }

\* node ids asked for
NodeIdsAsked == {NodeId(T0), NodeId(T1("Revealed", "Revealed")), NodeId(T1b), NodeId(T2("Revealed")),
                 NodeId(AbsentNode)}

\* the revealed seals a caller may know
KnownSeals == {sealW, sealU, sealV}

(***************************************************************************)
(* State                                                                   *)
(*                                                                         *)
(* consignment  the FullConsignment the caller holds                       *)
(* before       the consignment as it was when the last operation that can *)
(*              change it began; a newly made consignment has no earlier   *)
(*              form and is its own before                                 *)
(* lastOp       the name of the last operation                             *)
(* arg          the argument of the last operation                         *)
(* result       what the last operation returned                           *)
(* prevOp       the name of the operation before the last one              *)
(* repeated     the last operation repeated the one before it, with the    *)
(*              same argument                                              *)
(* muts         the number of finalize and reveal_seals calls made on the  *)
(*              consignment since it was made                              *)
(* iter         the chain iterator borrowed from the consignment:          *)
(*              [live, it, start_with, yielded, nexts, ended]              *)
(***************************************************************************)
VARIABLES consignment, before, lastOp, arg, result, prevOp, repeated, muts, iter

vars == <<consignment, before, lastOp, arg, result, prevOp, repeated, muts, iter>>

NoIter ==
    [live |-> FALSE,
     it |-> [connected_by |-> 0, next_item |-> NoneItem, error |-> NoneError],
     start_with |-> [node |-> <<>>],
     yielded |-> <<>>,
     nexts |-> 0,
     ended |-> FALSE]

\* a run makes its consignment first and works on it afterwards
Fresh == muts = 0 /\ lastOp \in {"with", "strict_decode", "deserialize"} /\ ~iter.live

Init ==
    /\ consignment \in Consignments
    /\ before = consignment
    /\ lastOp = "with"
    /\ arg = <<>>
    /\ result = <<>>
    /\ prevOp = "-"
    /\ repeated = FALSE
    /\ muts = 0
    /\ iter = NoIter

\* FullConsignment::with called on parts
With ==
    /\ Fresh
    /\ \E body \in EncodedBodies :
        /\ consignment' = with(body.schema, body.genesis, body.endpoints,
                               body.anchored_bundles, body.state_extensions)
        /\ before' = consignment'
        /\ lastOp' = "with"
        /\ arg' = <<>>
        /\ result' = <<>>
        /\ prevOp' = lastOp
        /\ repeated' = FALSE
        /\ muts' = 0
        /\ UNCHANGED iter

\* FullConsignment::strict_decode called on a blob whose first byte is v
StrictDecode ==
    /\ Fresh
    /\ \E body \in EncodedBodies, v \in 0..MaxVersion :
        \E r \in {strict_decode(StrictEncode([body EXCEPT !.version = v]))} :
            /\ consignment' = IF r.ok THEN r.val ELSE consignment
            /\ before' = consignment'
            /\ lastOp' = "strict_decode"
            /\ arg' = StrictEncode([body EXCEPT !.version = v])
            /\ result' = [ok |-> r.ok, err |-> r.err]
            /\ prevOp' = lastOp
            /\ repeated' = FALSE
            /\ muts' = IF r.ok THEN 0 ELSE muts
            /\ UNCHANGED iter

\* the derived Deserialize called on a document whose version field is v
SerdeDeserialize ==
    /\ Fresh
    /\ \E body \in EncodedBodies, v \in 0..MaxVersion :
        /\ consignment' = serde_deserialize([body EXCEPT !.version = v])
            /\ before' = consignment'
            /\ lastOp' = "deserialize"
            /\ arg' = [body EXCEPT !.version = v]
            /\ result' = <<>>
            /\ prevOp' = lastOp
            /\ repeated' = FALSE
            /\ muts' = 0
            /\ UNCHANGED iter

\* FullConsignment::id
Id ==
    /\ lastOp' = "id"
    /\ arg' = <<>>
    /\ result' = id(consignment)
    /\ prevOp' = lastOp
    /\ repeated' = (lastOp = "id")
    /\ UNCHANGED <<consignment, before, muts, iter>>

\* FullConsignment::endpoint_transition_by_id
EndpointTransitionById ==
    /\ ~iter.live
    /\ \E node_id \in NodeIdsAsked :
        /\ before' = consignment
        /\ lastOp' = "endpoint_transition_by_id"
        /\ arg' = node_id
        /\ result' = endpoint_transition_by_id(consignment, node_id)
        /\ prevOp' = lastOp
        /\ repeated' = FALSE
        /\ UNCHANGED <<consignment, muts, iter>>

\* FullConsignment::finalize
Finalize ==
    /\ ~iter.live
    /\ muts < MaxMutations
    /\ \E expose \in SUBSET SealEndpoints :
        \E r \in {finalize(consignment, expose)} :
            /\ muts' = muts + 1
            /\ consignment' = IF r.fault THEN consignment ELSE r.val
            /\ before' = consignment
            /\ lastOp' = "finalize"
            /\ arg' = expose
            /\ result' = [count |-> r.count, fault |-> r.fault]
            /\ prevOp' = lastOp
            /\ repeated' = (lastOp = "finalize" /\ arg = expose)
            /\ UNCHANGED iter

\* FullConsignment::reveal_seals
RevealSeals ==
    /\ ~iter.live
    /\ muts < MaxMutations
    /\ \E known_seals \in SUBSET KnownSeals :
        \E r \in {reveal_seals(consignment, known_seals)} :
            /\ muts' = muts + 1
            /\ consignment' = r.val
            /\ before' = consignment
            /\ lastOp' = "reveal_seals"
            /\ arg' = known_seals
            /\ result' = [count |-> r.count]
            /\ prevOp' = lastOp
            /\ repeated' = FALSE
            /\ UNCHANGED iter

\* FullConsignment::endpoint_bundles, which returns a vector and has no
\* error to return
EndpointBundles ==
    /\ ~iter.live
    /\ before' = consignment
    /\ lastOp' = "endpoint_bundles"
    /\ arg' = <<>>
    /\ result' = Ok(endpoint_bundles(consignment))
    /\ prevOp' = lastOp
    /\ repeated' = FALSE
    /\ UNCHANGED <<consignment, muts, iter>>

\* FullConsignment::node_ids
NodeIds ==
    /\ ~iter.live
    /\ before' = consignment
    /\ lastOp' = "node_ids"
    /\ arg' = <<>>
    /\ result' = node_ids(consignment)
    /\ prevOp' = lastOp
    /\ repeated' = FALSE
    /\ UNCHANGED <<consignment, muts, iter>>

\* Consignment::chain_iter
ChainIter ==
    /\ ~iter.live
    /\ \E start_with \in NodeIdsAsked, connected_by \in RightTypes :
        /\ iter' = [live |-> TRUE,
                    it |-> chain_iter(consignment, start_with, connected_by),
                    start_with |-> start_with,
                    yielded |-> <<>>,
                    nexts |-> 0,
                    ended |-> FALSE]
        /\ before' = consignment
        /\ lastOp' = "chain_iter"
        /\ arg' = start_with
        /\ result' = <<>>
        /\ prevOp' = lastOp
        /\ repeated' = FALSE
        /\ UNCHANGED <<consignment, muts>>

\* ChainIter::next
IterNext ==
    /\ iter.live
    /\ \E r \in {ChainIterNext(consignment, iter.it)} :
        /\ iter' = [iter EXCEPT
                      !.it = r.it,
                      !.yielded = IF r.item.some THEN Append(@, r.item.val) ELSE @,
                      !.nexts = IF @ < MaxNexts THEN @ + 1 ELSE @,
                      !.ended = @ \/ ~r.item.some]
        /\ before' = consignment
        /\ lastOp' = "next"
        /\ arg' = <<>>
        /\ result' = r.item
        /\ prevOp' = lastOp
        /\ repeated' = FALSE
        /\ UNCHANGED <<consignment, muts>>

\* ChainIter::into_result, which consumes the iterator
IterIntoResult ==
    /\ iter.live
    /\ iter' = NoIter
    /\ before' = consignment
    /\ lastOp' = "into_result"
    /\ arg' = <<>>
    /\ result' = [is_err |-> is_err(iter.it), res |-> into_result(iter.it)]
    /\ prevOp' = lastOp
    /\ repeated' = FALSE
    /\ UNCHANGED <<consignment, muts>>

\* the container: making a consignment, concealing, revealing, taking its id
Next ==
    \/ With
    \/ StrictDecode
    \/ SerdeDeserialize
    \/ Id
    \/ Finalize
    \/ RevealSeals

Spec == Init /\ [][Next]_vars

\* the graph queries and the chain iterator over a consignment
GraphNext ==
    \/ EndpointTransitionById
    \/ EndpointBundles
    \/ NodeIds
    \/ ChainIter
    \/ IterNext
    \/ IterIntoResult

GraphSpec == Init /\ [][GraphNext]_vars

(***************************************************************************)
(* Text form of terminal seals (std/src/containers/seal.rs)                *)
(*                                                                         *)
(* A string is modelled by what the two grammars read from it:             *)
(* [secret, method, txid, vout, blinding].  The concealed-hash grammar     *)
(* reads secret, the revealed-seal grammar "method:txid:vout#blinding"     *)
(* reads the other four; a part a string does not have is empty.           *)
(***************************************************************************)
MethodText(method) == IF method = "OpretFirst" THEN "opret1st" ELSE "tapret1st"
TxPtrText(txid) == IF txid.tag = "WitnessTx" THEN "~" ELSE txid.txid

\* Display for SecretSeal
DisplaySecretSeal(hash) ==
    [secret |-> hash.secret, method |-> "", txid |-> "", vout |-> 0, blinding |-> 0]

\* Display for GraphSeal
DisplayGraphSeal(g) ==
    [secret |-> <<>>, method |-> MethodText(g.method), txid |-> TxPtrText(g.txid),
     vout |-> g.vout, blinding |-> g.blinding]

NoTerminalSeal == [tag |-> "-", hash |-> NoSecret, seal |-> NoVoutSeal]
NoParseError == [grammar |-> "-", kind |-> "-"]
ParseOk(val) == [ok |-> TRUE, val |-> val, err |-> NoParseError]
ParseErr(val, grammar, kind) == [ok |-> FALSE, val |-> val, err |-> [grammar |-> grammar, kind |-> kind]]

\* SecretSeal::from_str
SecretSealFromStr(s) ==
    IF [secret |-> s.secret] \in SecretSeal
    THEN ParseOk([secret |-> s.secret])
    ELSE ParseErr(NoSecret, "concealed", "InvalidSecret")

\* GraphSeal::from_str
GraphSealFromStr(s) ==
    IF s.method = "" \/ s.txid = ""
    THEN ParseErr(NoSeal, "revealed", "WrongStructure")
    ELSE IF s.method \notin {MethodText(m) : m \in CloseMethod}
    THEN ParseErr(NoSeal, "revealed", "WrongMethod")
    ELSE IF s.txid \notin {TxPtrText(t) : t \in TxPtr}
    THEN ParseErr(NoSeal, "revealed", "WrongTxid")
    ELSE ParseOk([method |-> CHOOSE m \in CloseMethod : MethodText(m) = s.method,
                  txid |-> CHOOSE t \in TxPtr : TxPtrText(t) = s.txid,
                  vout |-> s.vout, blinding |-> s.blinding])

\* impl Display for TerminalSeal
DisplayTerminalSeal(t) ==
    IF t.tag = "ConcealedUtxo"
    THEN DisplaySecretSeal(t.hash)
    ELSE DisplayGraphSeal(GraphSealFromVoutSeal(t.seal))

\* TerminalSealFromStr trying the revealed-seal grammar first
TerminalSealFromStrRevealedFirst(s) ==
    IF GraphSealFromStr(s).ok
    THEN ParseOk(TerminalSealFromGraphSeal(GraphSealFromStr(s).val))
    ELSE IF SecretSealFromStr(s).ok
    THEN ParseOk(ConcealedUtxo(SecretSealFromStr(s).val))
    ELSE ParseErr(NoTerminalSeal, SecretSealFromStr(s).err.grammar,
                  SecretSealFromStr(s).err.kind)

\* impl FromStr for TerminalSeal
TerminalSealFromStr(s) ==
    IF SecretSealFromStr(s).ok
    THEN ParseOk(ConcealedUtxo(SecretSealFromStr(s).val))
    ELSE IF GraphSealFromStr(s).ok
    THEN ParseOk(TerminalSealFromGraphSeal(GraphSealFromStr(s).val))
    ELSE ParseErr(NoTerminalSeal, GraphSealFromStr(s).err.grammar,
                  GraphSealFromStr(s).err.kind)

\* the strings parsed: the text of every graph-level seal and of some
\* concealed seals, strings both grammars accept, and malformed strings
Texts ==
    {DisplayGraphSeal(g) : g \in GraphSeal}
    \cup {DisplaySecretSeal(ConcealGraphSeal(g)) : g \in {sealW, sealU, sealV}}
    \cup {[DisplayGraphSeal(g) EXCEPT !.secret = ConcealGraphSeal(sealU).secret] :
             g \in {sealW, sealU}}
    \cup {[secret |-> <<>>, method |-> "", txid |-> "", vout |-> 0, blinding |-> 0],
          [secret |-> <<"x">>, method |-> "", txid |-> "", vout |-> 0, blinding |-> 0],
          [secret |-> <<>>, method |-> "bogus", txid |-> "~", vout |-> 0, blinding |-> 1],
          [secret |-> <<"x">>, method |-> "opret1st", txid |-> "zz", vout |-> 0, blinding |-> 1]}

(***************************************************************************)
(* The seal conversions on their own: every graph-level seal, vout seal    *)
(* and terminal seal of the bounded seal universe is converted and         *)
(* concealed                                                               *)
(***************************************************************************)
SealInit ==
    /\ consignment = with(SchemaValue, GenesisNode, <<>>, <<>>, <<>>)
    /\ before = consignment
    /\ lastOp = "-"
    /\ arg = <<>>
    /\ result = <<>>
    /\ prevOp = "-"
    /\ repeated = FALSE
    /\ muts = 0
    /\ iter = NoIter

\* TerminalSeal::from(GraphSeal), and the concealment of the result
TerminalSealFrom ==
    \E g \in GraphSeal :
        /\ lastOp' = "terminal_seal_from"
        /\ arg' = g
        /\ result' = [seal |-> TerminalSealFromGraphSeal(g),
                      concealed |-> ConcealTerminalSeal(TerminalSealFromGraphSeal(g))]
        /\ UNCHANGED <<consignment, before, prevOp, repeated, muts, iter>>

\* GraphSeal::from(VoutSeal), and the terminal seal made of the result
GraphSealFrom ==
    \E v \in VoutSeal :
        /\ lastOp' = "graph_seal_from"
        /\ arg' = v
        /\ result' = [seal |-> GraphSealFromVoutSeal(v),
                      terminal |-> TerminalSealFromGraphSeal(GraphSealFromVoutSeal(v))]
        /\ UNCHANGED <<consignment, before, prevOp, repeated, muts, iter>>

\* TerminalSeal::conceal
ConcealTerminal ==
    \E t \in TerminalSeal :
        /\ lastOp' = "conceal_terminal"
        /\ arg' = t
        /\ result' = ConcealTerminalSeal(t)
        /\ UNCHANGED <<consignment, before, prevOp, repeated, muts, iter>>

\* TerminalSeal's Display, and the parse of the text it writes
DisplayTerminal ==
    \E t \in TerminalSeal :
        /\ lastOp' = "display"
        /\ arg' = t
        /\ result' = [text |-> DisplayTerminalSeal(t),
                      parsed |-> TerminalSealFromStr(DisplayTerminalSeal(t))]
        /\ UNCHANGED <<consignment, before, prevOp, repeated, muts, iter>>

\* TerminalSeal::from_str
TerminalFromStr ==
    \E s \in Texts :
        /\ lastOp' = "from_str"
        /\ arg' = s
        /\ result' = TerminalSealFromStr(s)
        /\ UNCHANGED <<consignment, before, prevOp, repeated, muts, iter>>

SealNext ==
    \/ TerminalSealFrom
    \/ GraphSealFrom
    \/ ConcealTerminal
    \/ DisplayTerminal
    \/ TerminalFromStr

SealSpec == SealInit /\ [][SealNext]_vars

(***************************************************************************)
(* Properties                                                              *)
(***************************************************************************)
\* the ids of the known transitions of the bundles the declared endpoints
\* name
EndpointNodeIds(c) ==
    UNION { KnownNodeIds(c.anchored_bundles[i].bundle) :
              i \in { k \in 1..Len(c.anchored_bundles) :
                        \E e \in 1..Len(c.endpoints) :
                            c.endpoints[e].bundle_id = BundleId(c.anchored_bundles[k].bundle) } }

\* C1: endpoint_transition_by_id(n) returns Err(NotEndpoint(n)) when n is not
\* the id of a known transition of a bundle named by a declared endpoint, and
\* Ok with the transition whose id is n when it is.
C1_EndpointGuard ==
    lastOp = "endpoint_transition_by_id" =>
        IF arg \in EndpointNodeIds(consignment)
        THEN result.ok /\ NodeId(result.val) = arg
        ELSE ~result.ok /\ result.err = NotEndpoint(arg)

\* C2: a chain iterator started at a node id that is not a declared endpoint
\* yields no item, and once next() was called is_err() is true and
\* into_result() is Err(NotEndpoint(start)).
C2_ChainIterNonEndpoint ==
    (iter.live /\ iter.nexts >= 1 /\ iter.start_with \notin EndpointNodeIds(consignment)) =>
        /\ iter.yielded = <<>>
        /\ is_err(iter.it)
        /\ into_result(iter.it) = Err(<<>>, NotEndpoint(iter.start_with))

\* every owned right assignment of the consignment, in the order the
\* anchored bundles, their transitions and then the state extensions are
\* visited
ConsignmentAssignments(c) ==
    Flatten(SeqMap(LAMBDA ab :
                      Flatten(SeqMap(LAMBDA e : AllAssignments(e.transition.owned_rights),
                                     ab.bundle)),
                   c.anchored_bundles))
    \o Flatten(SeqMap(LAMBDA extension : AllAssignments(extension.owned_rights),
                      c.state_extensions))

\* what a consignment is apart from the disclosure form of its assignments
Frame(c) ==
    [version |-> c.version, schema |-> c.schema, genesis |-> c.genesis,
     endpoints |-> c.endpoints,
     bundles |-> SeqMap(LAMBDA ab : [anchor |-> ab.anchor, bundle_id |-> BundleId(ab.bundle)],
                        c.anchored_bundles),
     extensions |-> SeqMap(NodeId, c.state_extensions)]

\* C3: finalize(E) leaves the anchored bundles with the same length, the same
\* order and the same anchor at every position, every anchor still paired
\* with the bundle of its position, and the conversion of the rebuilt vector
\* ("size of the original collection not changed") never fails.
C3_FinalizeKeepsBundleFrame ==
    lastOp = "finalize" =>
        /\ ~result.fault
        /\ Len(consignment.anchored_bundles) = Len(before.anchored_bundles)
        /\ \A i \in 1..Len(before.anchored_bundles) :
            /\ consignment.anchored_bundles[i].anchor = before.anchored_bundles[i].anchor
            /\ BundleId(consignment.anchored_bundles[i].bundle)
                   = BundleId(before.anchored_bundles[i].bundle)

\* a finalize call that concealed something in a consignment of three
\* anchored bundles
C3_Witness ==
    /\ lastOp = "finalize"
    /\ result.count > 0
    /\ consignment # before
    /\ Len(before.anchored_bundles) = 3

\* C4: finalize(E) removes no transition and no extension: every bundle
\* holds as many transitions after the call as before, each paired with its
\* original input set, and node_ids() after the call is node_ids() before it.
C4_FinalizeRemovesNoNode ==
    lastOp = "finalize" =>
        /\ Len(consignment.anchored_bundles) = Len(before.anchored_bundles)
        /\ \A i \in 1..Len(before.anchored_bundles) :
            LET b == before.anchored_bundles[i].bundle
                a == consignment.anchored_bundles[i].bundle
            IN  /\ Len(a) = Len(b)
                /\ \A k \in 1..Len(b) : \E j \in 1..Len(a) :
                       /\ NodeId(a[j].transition) = NodeId(b[k].transition)
                       /\ a[j].inputs = b[k].inputs
        /\ Len(consignment.state_extensions) = Len(before.state_extensions)
        /\ \A i \in 1..Len(before.state_extensions) :
               NodeId(consignment.state_extensions[i]) = NodeId(before.state_extensions[i])
        /\ node_ids(consignment) = node_ids(before)

\* a finalize call on a consignment with a bundle of two transitions and a
\* state extension, which concealed state in one transition of that bundle
\* and left the other as it was
C4_Witness ==
    /\ lastOp = "finalize"
    /\ before.state_extensions # <<>>
    /\ \E i \in 1..Len(before.anchored_bundles) :
        /\ Len(before.anchored_bundles[i].bundle) = 2
        /\ Len(consignment.anchored_bundles[i].bundle) = 2
        /\ \E j, k \in 1..2 :
            /\ consignment.anchored_bundles[i].bundle[j] # before.anchored_bundles[i].bundle[j]
            /\ consignment.anchored_bundles[i].bundle[k] = before.anchored_bundles[i].bundle[k]

\* C5: a second finalize(E) made right after finalize(E) returns 0 and
\* leaves the consignment as the first call left it.
C5_FinalizeTwice ==
    (lastOp = "finalize" /\ repeated) =>
        /\ result.count = 0
        /\ consignment = before

\* a second finalize(E) with a non-empty E, on a consignment in which the
\* first call left state revealed under an exposed seal and concealed state
\* elsewhere, and kept an endpoint
C5_Witness ==
    /\ lastOp = "finalize" /\ repeated
    /\ arg # {}
    /\ consignment.endpoints # <<>>
    /\ \E i, j \in 1..Len(ConsignmentAssignments(consignment)) :
        /\ StateIsRevealed(ConsignmentAssignments(consignment)[i])
        /\ ~StateIsRevealed(ConsignmentAssignments(consignment)[j])

\* C6: reveal_seals never fails and only adds: every assignment of every
\* transition and extension whose concealed seal is the concealment of a
\* known seal gets that known seal in its place and keeps its state part,
\* every other assignment is left as it was, nothing else of the
\* consignment changes, and the returned number is the number of
\* assignments replaced.
C6_RevealAdditive ==
    lastOp = "reveal_seals" =>
        LET b == ConsignmentAssignments(before)
            a == ConsignmentAssignments(consignment)
        IN  /\ Len(a) = Len(b)
            /\ \A i \in 1..Len(b) :
                IF ~SealIsRevealed(b[i]) /\ \E k \in arg : ConcealGraphSeal(k) = b[i].cseal
                THEN /\ SealIsRevealed(a[i])
                     /\ a[i].seal \in arg
                     /\ ConcealGraphSeal(a[i].seal) = b[i].cseal
                     /\ StateIsRevealed(a[i]) = StateIsRevealed(b[i])
                     /\ a[i].state = b[i].state
                     /\ a[i].cstate = b[i].cstate
                ELSE a[i] = b[i]
            /\ result.count = Cardinality({i \in 1..Len(b) : a[i] # b[i]})
            /\ Frame(consignment) = Frame(before)

\* a reveal_seals call with one known seal that replaced the concealed seal
\* of more than one assignment, one of them in a state extension, and left
\* another concealed seal alone
C6_Witness ==
    /\ lastOp = "reveal_seals"
    /\ Cardinality(arg) = 1
    /\ result.count >= 2
    /\ before.state_extensions # <<>>
    /\ consignment.state_extensions # before.state_extensions
    /\ \E i \in 1..Len(ConsignmentAssignments(consignment)) :
           ~SealIsRevealed(ConsignmentAssignments(consignment)[i])

\* C7: the seal reveal_seals puts in the place of a concealed seal conceals
\* to the concealed seal it replaced: every assignment commits to the same
\* concealed seal after the call as before, and concealing the replaced
\* seals again gives back the assignment as it was.
C7_ConcealRevealInverse ==
    lastOp = "reveal_seals" =>
        LET b == ConsignmentAssignments(before)
            a == ConsignmentAssignments(consignment)
        IN  /\ Len(a) = Len(b)
            /\ \A i \in 1..Len(b) :
                /\ ConcealedSealOf(a[i]) = ConcealedSealOf(b[i])
                /\ a[i] # b[i] =>
                       AssignmentConcealSeals(a[i], {ConcealGraphSeal(k) : k \in arg}).val = b[i]

\* a reveal_seals call made right after a finalize call, which put a known
\* seal in the place of a concealed one
C7_Witness ==
    /\ lastOp = "reveal_seals"
    /\ prevOp = "finalize"
    /\ result.count > 0
    /\ \E i \in 1..Len(ConsignmentAssignments(before)) :
        /\ ~SealIsRevealed(ConsignmentAssignments(before)[i])
        /\ SealIsRevealed(ConsignmentAssignments(consignment)[i])
        /\ ConsignmentAssignments(consignment)[i].seal \in arg

\* C8: the concealment of a terminal seal is canonical: the terminal seal
\* made from a graph-level seal g conceals to the concealment of g, with a
\* txid or relative to the witness; ConcealedUtxo(h) conceals to h; and
\* WitnessVout(v) conceals to the concealment of the graph-level seal made
\* from v.
C8_ConcealCanonical ==
    /\ lastOp = "terminal_seal_from" => result.concealed = ConcealGraphSeal(arg)
    /\ lastOp = "graph_seal_from" =>
           /\ result.terminal = WitnessVout(arg)
           /\ ConcealTerminalSeal(result.terminal) = ConcealGraphSeal(result.seal)
    /\ lastOp = "conceal_terminal" =>
           IF arg.tag = "ConcealedUtxo"
           THEN result = arg.hash
           ELSE result = ConcealGraphSeal([method |-> arg.seal.method,
                                           txid |-> TxPtrWitnessTx,
                                           vout |-> arg.seal.vout,
                                           blinding |-> arg.seal.blinding])

\* the terminal seal made from a seal that carries a txid, which is a
\* ConcealedUtxo
C8_Witness ==
    /\ lastOp = "terminal_seal_from"
    /\ arg.txid.tag = "Txid"
    /\ result.seal.tag = "ConcealedUtxo"
    /\ result.concealed = ConcealGraphSeal(arg)

\* C9: decoding a consignment whose version is not 0 returns an error and no
\* consignment, and every consignment a caller holds has version() = 0, also
\* after finalize and reveal_seals calls.
C9_VersionGate ==
    /\ (lastOp = "strict_decode" /\ arg[1] # 0) => ~result.ok
    /\ version(consignment) = 0

\* C10: id() is a function of the content the consignment has when it is
\* called: the call leaves the consignment as it is, a call right after
\* another call returns the same id, and the id returned after a finalize or
\* reveal_seals call is the id of the content before that call exactly when
\* the call changed nothing.
C10_IdOfContent ==
    [][lastOp' = "id" =>
          /\ consignment' = consignment
          /\ lastOp = "id" => result' = result
          /\ (result' = id(before')) <=> (consignment' = before')]_vars

\* an id() call right after a finalize or reveal_seals call that changed the
\* consignment, followed by a second id() call
C10_Witness ==
    /\ lastOp = "id"
    /\ repeated
    /\ consignment # before
    /\ result # id(before)
    /\ muts > 0

\* C11: when a declared endpoint names a bundle id that no anchored bundle
\* has, endpoint_bundles reports a consistency error to the caller.
C11_DanglingEndpointReported ==
    (lastOp = "endpoint_bundles"
        /\ \E e \in 1..Len(consignment.endpoints) :
               \A k \in 1..Len(consignment.anchored_bundles) :
                   BundleId(consignment.anchored_bundles[k].bundle)
                       # consignment.endpoints[e].bundle_id) =>
        ~result.ok

\* C12: node_ids() is exactly the genesis node id, the ids of the known
\* transitions of every anchored bundle, named by an endpoint or not, and
\* the ids of the state extensions; for the two-node chain genesis <- T it
\* is {genesis.id, T.id}.
C12_NodeIdsUnion ==
    lastOp = "node_ids" =>
        /\ \A n \in result :
            \/ n = NodeId(consignment.genesis)
            \/ \E i \in 1..Len(consignment.anchored_bundles) :
                   \E k \in 1..Len(consignment.anchored_bundles[i].bundle) :
                       n = NodeId(consignment.anchored_bundles[i].bundle[k].transition)
            \/ \E i \in 1..Len(consignment.state_extensions) :
                   n = NodeId(consignment.state_extensions[i])
        /\ NodeId(consignment.genesis) \in result
        /\ \A i \in 1..Len(consignment.anchored_bundles) :
               \A k \in 1..Len(consignment.anchored_bundles[i].bundle) :
                   NodeId(consignment.anchored_bundles[i].bundle[k].transition) \in result
        /\ \A i \in 1..Len(consignment.state_extensions) :
               NodeId(consignment.state_extensions[i]) \in result
        /\ consignment = TwoNodeChain =>
               result = {NodeId(GenesisNode), NodeId(T3("Revealed"))}

\* node_ids() of a consignment with a state extension and with a bundle no
\* endpoint names, whose transitions are part of the result
C12_Witness ==
    /\ lastOp = "node_ids"
    /\ consignment.state_extensions # <<>>
    /\ Cardinality(result) = 6
    /\ NodeId(T2("Revealed")) \in result
    /\ NodeId(T2("Revealed")) \notin EndpointNodeIds(consignment)

\* the chain the caller expects from a start node: the transition of that
\* id with its witness, then the chain of its first parent of the connecting
\* type; complete when every id resolves and the last transition has no
\* parent of that type
RECURSIVE ExpectedChain(_, _, _, _)
ExpectedChainPrepend(item, rest) ==
    [items |-> <<item>> \o rest.items, complete |-> rest.complete]

ExpectedChain(c, node_id, type, fuel) ==
    IF ~transition_witness_by_id(c, node_id).ok \/ fuel = 0
    THEN [items |-> <<>>, complete |-> FALSE]
    ELSE IF ParentOutputsByType(transition_witness_by_id(c, node_id).val.transition, type) = <<>>
         THEN [items |-> <<transition_witness_by_id(c, node_id).val>>, complete |-> TRUE]
         ELSE ExpectedChainPrepend(
                  transition_witness_by_id(c, node_id).val,
                  ExpectedChain(c,
                      Head(ParentOutputsByType(
                               transition_witness_by_id(c, node_id).val.transition,
                               type)).node_id,
                      type, fuel - 1))

\* the parent output by which the iterator's walk goes on from an item
Unresolved(c, item, type) ==
    /\ ParentOutputsByType(item.transition, type) # <<>>
    /\ ~transition_witness_by_id(c, Head(ParentOutputsByType(item.transition, type)).node_id).ok

C14_ChainIterFinite ==
    [][(iter.live /\ iter'.live) =>
          /\ Len(iter'.yielded) <= Len(TransitionWitnesses(consignment))
          /\ iter.ended => (~result'.some /\ iter'.it.error = iter.it.error
                            /\ iter'.yielded = iter.yielded)]_vars

C14_Witness ==
    /\ iter.live /\ iter.ended /\ lastOp = "next" /\ prevOp = "next"
    /\ iter.nexts >= 5
    /\ Len(iter.yielded) = 3

\* C19: a next() whose current transition has a parent of the connecting
\* type that does not resolve to a transition of the consignment still
\* yields the current transition, stores the error of the failed lookup and
\* has nothing more to yield: is_err() is true, into_result() is that error
\* and every later next() returns None.  A next() whose current transition
\* has no parent of the connecting type ends the walk with is_err() false.
C19_UnresolvedParentStops ==
    [][(iter.live /\ iter'.live) =>
          /\ (iter.it.next_item.some
              /\ Unresolved(consignment, iter.it.next_item.val, iter.it.connected_by)) =>
                 /\ result' = Some(iter.it.next_item.val)
                 /\ is_err(iter'.it)
                 /\ into_result(iter'.it) =
                        Err(<<>>, TransitionAbsent(
                                     Head(ParentOutputsByType(iter.it.next_item.val.transition,
                                                              iter.it.connected_by)).node_id))
                 /\ ~iter'.it.next_item.some
          /\ is_err(iter.it) =>
                 /\ ~result'.some
                 /\ into_result(iter'.it) = into_result(iter.it)
          /\ (iter.it.next_item.some
              /\ ParentOutputsByType(iter.it.next_item.val.transition,
                                     iter.it.connected_by) = <<>>) =>
                 /\ ~result'.some
                 /\ ~is_err(iter'.it)
                 /\ into_result(iter'.it) = Ok(<<>>)]_vars

C19_Witness ==
    /\ lastOp = "into_result" /\ prevOp = "next"
    /\ result.is_err
    /\ result.res = Err(<<>>, TransitionAbsent(NodeId(AbsentNode)))

\* the assignments of the transitions of the anchored bundles, in the order
\* they are visited
TransitionAssignments(c) ==
    Flatten(SeqMap(LAMBDA ab :
                      Flatten(SeqMap(LAMBDA e : AllAssignments(e.transition.owned_rights),
                                     ab.bundle)),
                   c.anchored_bundles))

\* the concealed forms of the seal endpoints of the entries that are not
\* exposed
DroppedConcealed(endpoints, expose) ==
    {ConcealTerminalSeal(endpoints[i].seal_endpoint) :
        i \in {k \in 1..Len(endpoints) : endpoints[k].seal_endpoint \notin expose}}

\* the call turned a revealed seal (state) of the assignment into a
\* concealed one
SealBlinded(b, a) == SealIsRevealed(b) /\ ~SealIsRevealed(a)
StateConcealed(b, a) == StateIsRevealed(b) /\ ~StateIsRevealed(a)

\* C15: after finalize(E) the endpoints are the entries of the original
\* endpoints whose seal endpoint is in E, in their original order (none when
\* E is empty), and the revealed seals the call blinds are exactly those of
\* the transitions' assignments whose concealed form is the concealed form
\* of the seal endpoint of a dropped entry.
C15_FinalizeEndpointPartition ==
    lastOp = "finalize" =>
        LET b == ConsignmentAssignments(before)
            a == ConsignmentAssignments(consignment)
            nt == Len(TransitionAssignments(before))
            dropped == DroppedConcealed(before.endpoints, arg)
        IN  /\ consignment.endpoints =
                   SelectSeq(before.endpoints, LAMBDA ep : ep.seal_endpoint \in arg)
            /\ arg = {} => consignment.endpoints = <<>>
            /\ Len(a) = Len(b)
            /\ \A i \in 1..Len(b) :
                   SealBlinded(b[i], a[i]) <=>
                       (i <= nt /\ SealIsRevealed(b[i]) /\ ConcealedSealOf(b[i]) \in dropped)
            /\ \A i \in 1..Len(b) : ConcealedSealOf(a[i]) = ConcealedSealOf(b[i])

\* a finalize call that kept one endpoint, dropped another and blinded the
\* seal of the dropped one in a transition, leaving another seal revealed
C15_Witness ==
    /\ lastOp = "finalize"
    /\ consignment.endpoints # <<>>
    /\ Len(consignment.endpoints) < Len(before.endpoints)
    /\ \E i, j \in 1..Len(ConsignmentAssignments(before)) :
        /\ SealBlinded(ConsignmentAssignments(before)[i], ConsignmentAssignments(consignment)[i])
        /\ SealIsRevealed(ConsignmentAssignments(consignment)[j])

\* C16: finalize(E) conceals, in every transition and every extension, each
\* revealed state whose seal's concealed form is not the concealed form of a
\* member of E and no other state; it blinds a seal only if its concealed
\* form is that of a dropped endpoint's seal; the returned count is the
\* number of states concealed plus the number of seals blinded: 0 for the
\* two-node chain with its endpoint seal exposed, and at least 1 for an
\* empty E when a transition still has a revealed state.
C16_FinalizeConcealsAndCounts ==
    lastOp = "finalize" =>
        LET b == ConsignmentAssignments(before)
            a == ConsignmentAssignments(consignment)
            exposed == {ConcealTerminalSeal(e) : e \in arg}
            dropped == DroppedConcealed(before.endpoints, arg)
        IN  /\ Len(a) = Len(b)
            /\ \A i \in 1..Len(b) :
                /\ StateConcealed(b[i], a[i]) <=>
                       (StateIsRevealed(b[i]) /\ ConcealedSealOf(b[i]) \notin exposed)
                /\ StateIsRevealed(a[i]) => (StateIsRevealed(b[i]) /\ a[i].state = b[i].state)
                /\ ConcealedStateOf(a[i]) = ConcealedStateOf(b[i])
                /\ SealBlinded(b[i], a[i]) => ConcealedSealOf(b[i]) \in dropped
                /\ SealIsRevealed(a[i]) => (SealIsRevealed(b[i]) /\ a[i].seal = b[i].seal)
            /\ result.count = Cardinality({i \in 1..Len(b) : StateConcealed(b[i], a[i])})
                              + Cardinality({i \in 1..Len(b) : SealBlinded(b[i], a[i])})
            /\ (before = TwoNodeChain /\ arg = {endW}) => result.count = 0
            /\ (arg = {} /\ \E i \in 1..Len(TransitionAssignments(before)) :
                                StateIsRevealed(b[i])) => result.count >= 1

\* a finalize call with a non-empty E that concealed the state of one
\* assignment, blinded the seal of another, concealed both parts of a third
\* and left a state revealed under an exposed seal
C16_Witness ==
    /\ lastOp = "finalize"
    /\ arg # {}
    /\ result.count >= 4
    /\ \E i, j, k, l \in 1..Len(ConsignmentAssignments(before)) :
        /\ StateConcealed(ConsignmentAssignments(before)[i], ConsignmentAssignments(consignment)[i])
        /\ ~SealBlinded(ConsignmentAssignments(before)[i], ConsignmentAssignments(consignment)[i])
        /\ SealBlinded(ConsignmentAssignments(before)[j], ConsignmentAssignments(consignment)[j])
        /\ ~StateConcealed(ConsignmentAssignments(before)[j], ConsignmentAssignments(consignment)[j])
        /\ ConsignmentAssignments(before)[k].tag = "Revealed"
        /\ ConsignmentAssignments(consignment)[k].tag = "Confidential"
        /\ StateIsRevealed(ConsignmentAssignments(consignment)[l])

\* the anchors of the consignment, in order
Anchors(c) == SeqMap(LAMBDA ab : ab.anchor, c.anchored_bundles)

\* the input set of every transition of every bundle, in order
InputSets(c) ==
    SeqMap(LAMBDA ab : SeqMap(LAMBDA e : e.inputs, ab.bundle), c.anchored_bundles)

\* s is t with some of its entries dropped
RECURSIVE IsSubsequence(_, _)
IsSubsequence(s, t) ==
    IF s = <<>> THEN TRUE
    ELSE IF t = <<>> THEN FALSE
    ELSE IF Head(s) = Head(t) THEN IsSubsequence(Tail(s), Tail(t))
    ELSE IsSubsequence(s, Tail(t))

\* C20: finalize leaves version, schema, genesis, every anchor and the input
\* set of every transition as they were and changes the endpoints only by
\* dropping entries; reveal_seals leaves version, schema, genesis, the
\* endpoints, every anchor and the input set of every transition as they
\* were.
C20_FrameOfConcealAndReveal ==
    lastOp \in {"finalize", "reveal_seals"} =>
        /\ consignment.version = before.version
        /\ consignment.schema = before.schema
        /\ consignment.genesis = before.genesis
        /\ Anchors(consignment) = Anchors(before)
        /\ InputSets(consignment) = InputSets(before)
        /\ IsSubsequence(consignment.endpoints, before.endpoints)
        /\ lastOp = "reveal_seals" => consignment.endpoints = before.endpoints

\* a reveal_seals call that changed an assignment, made right after a
\* finalize call that dropped an endpoint and concealed something in a
\* bundle of two transitions with different input sets
C20_Witness ==
    /\ lastOp = "reveal_seals" /\ prevOp = "finalize"
    /\ consignment # before
    /\ consignment.endpoints # <<>>
    /\ \E i \in 1..Len(consignment.anchored_bundles) :
        /\ Len(consignment.anchored_bundles[i].bundle) = 2
        /\ consignment.anchored_bundles[i].bundle[1].inputs
               # consignment.anchored_bundles[i].bundle[2].inputs

\* C17: the terminal seal made from a graph-level seal g is WitnessVout with
\* g's close method, output index and blinding factor when g is relative to
\* the witness transaction, and ConcealedUtxo of the concealment of g when g
\* has a txid; the graph-level seal made from a VoutSeal v is relative to
\* the witness transaction with v's fields, and its terminal seal is
\* WitnessVout(v).
C17_TerminalSealConversion ==
    /\ lastOp = "terminal_seal_from" =>
           IF arg.txid.tag = "WitnessTx"
           THEN /\ result.seal.tag = "WitnessVout"
                /\ result.seal.seal = [method |-> arg.method, vout |-> arg.vout,
                                       blinding |-> arg.blinding]
                /\ result.seal.hash = NoSecret
           ELSE /\ result.seal.tag = "ConcealedUtxo"
                /\ result.seal.hash = ConcealGraphSeal(arg)
                /\ result.seal.seal = NoVoutSeal
    /\ lastOp = "graph_seal_from" =>
           /\ result.seal = [method |-> arg.method, txid |-> TxPtrWitnessTx,
                             vout |-> arg.vout, blinding |-> arg.blinding]
           /\ result.terminal.tag = "WitnessVout"
           /\ result.terminal.seal = arg

\* a VoutSeal with a blinding factor and output index above the least ones,
\* turned into a graph-level seal and then into WitnessVout of itself
C17_Witness ==
    /\ lastOp = "graph_seal_from"
    /\ arg.vout > 0 /\ arg.blinding > 1
    /\ result.seal.txid.tag = "WitnessTx"
    /\ result.terminal = WitnessVout(arg)

\* C18: parsing a string gives ConcealedUtxo of the parsed hash whenever the
\* concealed-hash grammar accepts it, the terminal seal made from the parsed
\* graph-level seal when only the revealed-seal grammar accepts it, and the
\* parse error of the revealed-seal grammar when neither does; parsing the
\* text of a terminal seal t gives t.
C18_TerminalSealText ==
    /\ lastOp = "from_str" =>
           /\ SecretSealFromStr(arg).ok =>
                  (result.ok /\ result.val.tag = "ConcealedUtxo"
                   /\ result.val.hash = SecretSealFromStr(arg).val)
           /\ (~SecretSealFromStr(arg).ok /\ GraphSealFromStr(arg).ok) =>
                  (result.ok
                   /\ result.val = TerminalSealFromGraphSeal(GraphSealFromStr(arg).val))
           /\ (~SecretSealFromStr(arg).ok /\ ~GraphSealFromStr(arg).ok) =>
                  (~result.ok /\ result.err = GraphSealFromStr(arg).err
                   /\ result.err.grammar = "revealed")
    /\ lastOp = "display" =>
           (result.parsed.ok /\ result.parsed.val = arg)

\* the text of a WitnessVout, which the concealed-hash grammar rejects and
\* the revealed-seal grammar parses back
C18_Witness ==
    /\ lastOp = "display"
    /\ arg.tag = "WitnessVout"
    /\ ~SecretSealFromStr(result.text).ok
    /\ GraphSealFromStr(result.text).ok
    /\ result.parsed.val = arg


=============================================================================
